---- MODULE Spec2Model ----
(***************************************************************************)
(* County-line period detection of the QSO party analysis scripts:         *)
(* CountyLinePeriodGenerator (scripts/county_line_periods.py), whose       *)
(* detection core is repeated in CountyLineDetector                        *)
(* (scripts/_county_line_analyzer.py).                                     *)
(*                                                                         *)
(* One run of find_county_line_periods over one station's QSO list is a    *)
(* behaviour: the driving loop, _detect_period_from and the loop of        *)
(* _trace_pattern are taken one step at a time.  Indices are the 0-based   *)
(* indices of the Python lists.                                            *)
(***************************************************************************)
EXTENDS Integers, Sequences, FiniteSets, TLC

\* ---------------------------------------------------------------- bounds
MaxLen == 7
MaxMinAlternations == 3
MaxConsecutiveSameBound == 2
LongPad == 8
LongTail == 4

\* ------------------------------------------------------ program constants
LookaheadWindow == 10
DefaultMinAlternations == 3
DefaultMaxConsecutiveSame == 2

\* County codes, in the order Python's sorted() puts the strings.
CountyOrder == <<"A", "B", "C", "D", "E">>
Counties == {"A", "B", "C"}
Rank(c) == CHOOSE k \in 1..Len(CountyOrder) : CountyOrder[k] = c

VARIABLES
    qsos,                   \* the station's QSORecord list
    min_alternations,       \* self.min_alternations
    max_consecutive_same,   \* self.max_consecutive_same
    pc,                     \* position of the run
    i,                      \* cursor of find_county_line_periods
    periods,                \* the list find_county_line_periods builds
    county_pair,            \* (county_a, county_b) of _detect_period_from
    ti,                     \* loop index i of _trace_pattern
    expected,               \* locals of _trace_pattern
    alternations,
    consecutive_same,
    last_valid_idx,
    callsign,               \* station of generate_periods_table being detected
    waiting,                \* the detections of the other stations
    periods_table           \* the table generate_periods_table builds

vars == <<qsos, min_alternations, max_consecutive_same, pc, i, periods,
          county_pair, ti, expected, alternations, consecutive_same,
          last_valid_idx, callsign, waiting, periods_table>>

batch == <<callsign, waiting, periods_table>>

config == <<qsos, min_alternations, max_consecutive_same>>
tracer == <<ti, expected, alternations, consecutive_same, last_valid_idx>>

\* ---------------------------------------------------------------- records
None == <<>>
NoLocal == "-"

\* An integer local of a call that is not running: no index and no count.
NoIndex == -1

\* datetime.isoformat(): a string built from the timestamp.
IsoFormat(t) == <<"iso", t>>

QSORecord(t, c, id) == [timestamp |-> t, tx_county |-> c, qso_id |-> id]

\* load_mobile_qsos: the rows of one station, ORDER BY datetime.
LoadedQsos(cs) == [k \in 1..Len(cs) |-> QSORecord(k, cs[k], k)]

CountyOf(list, k) == list[k + 1].tx_county
County(k) == CountyOf(qsos, k)
TxCounties(list) == [k \in 1..Len(list) |-> list[k].tx_county]

\* the slice left open at its end
Slice_toEnd(list, lo, hi) == SubSeq(list, lo + 1, Len(list))

\* list[lo:hi]
Slice(list, lo, hi) == SubSeq(list, lo + 1, hi)

Min(a, b) == IF a <= b THEN a ELSE b

\* sorted() left out: the pair in the order it was found.
SortedPair_unsorted(a, b) == <<a, b>>

\* sorted([county_a, county_b])
SortedPair(a, b) == IF Rank(a) <= Rank(b) THEN <<a, b>> ELSE <<b, a>>

\* qso_count without the closing record
CountyLinePeriod_exclusive(start_idx, end_idx, a, b, alts) ==
    [start_time   |-> IsoFormat(qsos[start_idx + 1].timestamp),
     end_time     |-> IsoFormat(qsos[end_idx + 1].timestamp),
     counties     |-> SortedPair(a, b),
     qso_count    |-> end_idx - start_idx,
     alternations |-> alts,
     start_idx    |-> start_idx,
     end_idx      |-> end_idx]

CountyLinePeriod(start_idx, end_idx, a, b, alts) ==
    [start_time   |-> IsoFormat(qsos[start_idx + 1].timestamp),
     end_time     |-> IsoFormat(qsos[end_idx + 1].timestamp),
     counties     |-> SortedPair(a, b),
     qso_count    |-> end_idx - start_idx + 1,
     alternations |-> alts,
     start_idx    |-> start_idx,
     end_idx      |-> end_idx]

\* ------------------------------------------------- _find_alternating_pair
RECURSIVE ScanPair(_, _)
ScanPair(w, j) ==
    IF j >= Len(w) - 2 THEN None
    ELSE LET a == CountyOf(w, j)
             b == CountyOf(w, j + 1)
         IN  IF a = b THEN ScanPair(w, j + 1)
             ELSE IF j + 2 < Len(w) /\ CountyOf(w, j + 2) = a THEN <<a, b>>
             ELSE ScanPair(w, j + 1)

\* the pair taken from two differing neighbours, the third record unread
RECURSIVE ScanPair_noThird(_, _)
ScanPair_noThird(w, j) ==
    IF j >= Len(w) - 2 THEN None
    ELSE LET a == CountyOf(w, j)
             b == CountyOf(w, j + 1)
         IN  IF a = b THEN ScanPair_noThird(w, j + 1) ELSE <<a, b>>

FindAlternatingPair_noThird(w) == ScanPair_noThird(w, 0)

FindAlternatingPair(w) == ScanPair(w, 0)

\* ------------------------------------------------ find_county_line_periods
\* the loop stopped one cursor position early
LoopCond_short(cursor) == cursor < Len(qsos) - min_alternations - 1

\* while i < len(qsos) - self.min_alternations
LoopCond(cursor) == cursor < Len(qsos) - min_alternations

\* the threshold test off by one
MeetsMinimum_lax(alts) == alts >= min_alternations - 1

\* the threshold applied strictly to the count less the first record
MeetsMinimum_strict(alts) == alts - 1 > min_alternations

\* if alternations >= self.min_alternations
MeetsMinimum(alts) == alts >= min_alternations

\* the cursor restarted inside the period just emitted
NextCursor_inside(end_idx) == end_idx

\* i = period.end_idx + 1
NextCursor(end_idx) == end_idx + 1

\* the other member of the pair
Flip(e) == IF e = county_pair[1] THEN county_pair[2] ELSE county_pair[1]

InPair(c) == c = county_pair[1] \/ c = county_pair[2]

ResetLocals ==
    /\ county_pair' = None
    /\ ti' = NoIndex
    /\ expected' = NoLocal
    /\ alternations' = NoIndex
    /\ consecutive_same' = NoIndex
    /\ last_valid_idx' = NoIndex

\* the list of an earlier call kept and appended to
Begin_keepsList ==
    /\ pc = "start"
    /\ pc' = IF Len(qsos) < min_alternations + 1 THEN "done" ELSE "loop"
    /\ i' = IF Len(qsos) < min_alternations + 1 THEN i ELSE 0
    /\ UNCHANGED <<config, periods, county_pair, tracer>>

\* the short-input return left out
Begin_noGuard ==
    /\ pc = "start"
    /\ pc' = "loop"
    /\ periods' = <<>>
    /\ i' = 0
    /\ UNCHANGED <<config, county_pair, tracer>>

\* Entry of find_county_line_periods: the short-input return of an empty
\* list, else periods = [], i = 0 and the loop.
Begin ==
    /\ pc = "start"
    /\ pc' = IF Len(qsos) < min_alternations + 1 THEN "done" ELSE "loop"
    /\ periods' = <<>>
    /\ i' = IF Len(qsos) < min_alternations + 1 THEN i ELSE 0
    /\ UNCHANGED <<config, county_pair, tracer>>

\* The while test; the loop's exit is the return of the list.
LoopTest ==
    /\ pc = "loop"
    /\ pc' = IF LoopCond(i) THEN "detect" ELSE "done"
    /\ UNCHANGED <<config, i, periods, county_pair, tracer>>

\* _detect_period_from up to the call of _trace_pattern.  A None result is
\* taken by the caller's else branch: i += 1.
DetectPeriodFrom ==
    /\ pc = "detect"
    /\ LET scan_window == Min(i + LookaheadWindow, Len(qsos))
           pair == FindAlternatingPair(Slice(qsos, i, scan_window))
       IN  IF i + min_alternations >= Len(qsos) \/ pair = None
           THEN /\ i' = i + 1
                /\ pc' = "loop"
                /\ UNCHANGED county_pair
           ELSE /\ county_pair' = pair
                /\ pc' = "trace_entry"
                /\ UNCHANGED i
    /\ UNCHANGED <<config, periods, tracer>>

\* the loop entered without the membership test
TraceEntry_unchecked ==
    /\ pc = "trace_entry"
    /\ expected' = County(i)
    /\ alternations' = 0
    /\ consecutive_same' = 0
    /\ last_valid_idx' = i
    /\ ti' = i
    /\ pc' = "trace"
    /\ UNCHANGED <<config, i, periods, county_pair>>

\* _trace_pattern before its loop.
TraceEntry ==
    /\ pc = "trace_entry"
    /\ expected' = County(i)
    /\ IF ~InPair(County(i))
       THEN /\ last_valid_idx' = i
            /\ alternations' = 0
            /\ pc' = "traced"
            /\ UNCHANGED <<ti, consecutive_same>>
       ELSE /\ alternations' = 0
            /\ consecutive_same' = 0
            /\ last_valid_idx' = i
            /\ ti' = i
            /\ pc' = "trace"
    /\ UNCHANGED <<config, i, periods, county_pair>>

\* range(start_idx, len(qsos)) is exhausted.
TraceExhausted ==
    /\ pc = "trace"
    /\ ti >= Len(qsos)
    /\ pc' = "traced"
    /\ UNCHANGED <<config, i, periods, county_pair, tracer>>

\* an off-pair record taken as noise
TraceOffPair_tolerated ==
    /\ pc = "trace"
    /\ ti < Len(qsos)
    /\ ~InPair(County(ti))
    /\ consecutive_same' = consecutive_same + 1
    /\ IF consecutive_same + 1 > max_consecutive_same
       THEN /\ last_valid_idx' = ti - (consecutive_same + 1)
            /\ pc' = "traced"
            /\ ti' = ti
       ELSE /\ last_valid_idx' = ti
            /\ ti' = ti + 1
            /\ pc' = "trace"
    /\ UNCHANGED <<config, i, periods, county_pair, expected, alternations>>

\* the break cutting the tolerated repeats off as well
TraceOffPair_rewinds ==
    /\ pc = "trace"
    /\ ti < Len(qsos)
    /\ ~InPair(County(ti))
    /\ last_valid_idx' = last_valid_idx - consecutive_same
    /\ pc' = "traced"
    /\ UNCHANGED <<config, i, periods, county_pair, ti, expected,
                   alternations, consecutive_same>>

\* current not in (county_a, county_b): break
TraceOffPair ==
    /\ pc = "trace"
    /\ ti < Len(qsos)
    /\ ~InPair(County(ti))
    /\ pc' = "traced"
    /\ UNCHANGED <<config, i, periods, county_pair, tracer>>

\* the repeat counter left alone by a match
TraceMatch_keepsCounter ==
    /\ pc = "trace"
    /\ ti < Len(qsos)
    /\ InPair(County(ti))
    /\ County(ti) = expected
    /\ last_valid_idx' = ti
    /\ expected' = Flip(expected)
    /\ alternations' = alternations + 1
    /\ ti' = ti + 1
    /\ UNCHANGED <<config, pc, i, periods, county_pair, consecutive_same>>

\* current == expected
TraceMatch ==
    /\ pc = "trace"
    /\ ti < Len(qsos)
    /\ InPair(County(ti))
    /\ County(ti) = expected
    /\ consecutive_same' = 0
    /\ last_valid_idx' = ti
    /\ expected' = Flip(expected)
    /\ alternations' = alternations + 1
    /\ ti' = ti + 1
    /\ UNCHANGED <<config, pc, i, periods, county_pair>>

\* every record of the pair counted as an alternation
TraceNoise_counted ==
    /\ pc = "trace"
    /\ ti < Len(qsos)
    /\ InPair(County(ti))
    /\ County(ti) # expected
    /\ consecutive_same' = consecutive_same + 1
    /\ alternations' = alternations + 1
    /\ IF consecutive_same + 1 > max_consecutive_same
       THEN /\ last_valid_idx' = ti - (consecutive_same + 1)
            /\ pc' = "traced"
            /\ UNCHANGED ti
       ELSE /\ last_valid_idx' = ti
            /\ ti' = ti + 1
            /\ UNCHANGED pc
    /\ UNCHANGED <<config, i, periods, county_pair, expected>>

\* the trace ended by the repeats, but not cut back
TraceNoise_noRewind ==
    /\ pc = "trace"
    /\ ti < Len(qsos)
    /\ InPair(County(ti))
    /\ County(ti) # expected
    /\ consecutive_same' = consecutive_same + 1
    /\ last_valid_idx' = ti
    /\ IF consecutive_same + 1 > max_consecutive_same
       THEN pc' = "traced" /\ UNCHANGED ti
       ELSE ti' = ti + 1 /\ UNCHANGED pc
    /\ UNCHANGED <<config, i, periods, county_pair, expected, alternations>>

\* current is the pair's other member: counted as a repeat, and the trace is
\* cut back once the repeats exceed the tolerance.
TraceNoise ==
    /\ pc = "trace"
    /\ ti < Len(qsos)
    /\ InPair(County(ti))
    /\ County(ti) # expected
    /\ consecutive_same' = consecutive_same + 1
    /\ IF consecutive_same + 1 > max_consecutive_same
       THEN /\ last_valid_idx' = ti - (consecutive_same + 1)
            /\ pc' = "traced"
            /\ UNCHANGED ti
       ELSE /\ last_valid_idx' = ti
            /\ ti' = ti + 1
            /\ UNCHANGED pc
    /\ UNCHANGED <<config, i, periods, county_pair, expected, alternations>>

\* _trace_pattern has returned (last_valid_idx, alternations): the rest of
\* _detect_period_from, and the caller's use of its result.
DetectReturn ==
    /\ pc = "traced"
    /\ IF MeetsMinimum(alternations)
       THEN /\ periods' = Append(periods,
                    CountyLinePeriod(i, last_valid_idx, county_pair[1],
                                     county_pair[2], alternations))
            /\ i' = NextCursor(last_valid_idx)
       ELSE /\ i' = i + 1
            /\ UNCHANGED periods
    /\ pc' = "loop"
    /\ ResetLocals
    /\ UNCHANGED config

\* One call of find_county_line_periods: the batch around it stands still.
Next ==
    \/ Begin /\ UNCHANGED batch
    \/ LoopTest /\ UNCHANGED batch
    \/ DetectPeriodFrom /\ UNCHANGED batch
    \/ TraceEntry /\ UNCHANGED batch
    \/ TraceExhausted /\ UNCHANGED batch
    \/ TraceOffPair /\ UNCHANGED batch
    \/ TraceMatch /\ UNCHANGED batch
    \/ TraceNoise /\ UNCHANGED batch
    \/ DetectReturn /\ UNCHANGED batch

\* ------------------------------------------------ generate_periods_table
\* The variables of the detection in progress, apart from the detector's own
\* fields, which every detection of the batch shares.
Context ==
    [qsos |-> qsos, pc |-> pc, i |-> i, periods |-> periods,
     county_pair |-> county_pair, ti |-> ti, expected |-> expected,
     alternations |-> alternations, consecutive_same |-> consecutive_same,
     last_valid_idx |-> last_valid_idx]

\* A station whose log is loaded and whose detection has not begun: its
\* call starts from whatever the variables hold.
NotStarted(log) == [qsos |-> log, pc |-> "start"]

Resumed(s) ==
    IF waiting[s].pc = "start"
    THEN [Context EXCEPT !.qsos = waiting[s].qsos, !.pc = "start"]
    ELSE waiting[s]

\* Station s takes the place of the current one.
TakeOver(s) ==
    /\ s \in DOMAIN waiting
    /\ callsign' = s
    /\ waiting' = [x \in (DOMAIN waiting \ {s}) \cup {callsign} |->
                      IF x = callsign THEN Context ELSE waiting[x]]
    /\ qsos' = Resumed(s).qsos
    /\ pc' = Resumed(s).pc
    /\ i' = Resumed(s).i
    /\ periods' = Resumed(s).periods
    /\ county_pair' = Resumed(s).county_pair
    /\ ti' = Resumed(s).ti
    /\ expected' = Resumed(s).expected
    /\ alternations' = Resumed(s).alternations
    /\ consecutive_same' = Resumed(s).consecutive_same
    /\ last_valid_idx' = Resumed(s).last_valid_idx
    /\ UNCHANGED <<min_alternations, max_consecutive_same, periods_table>>

\* every result stored, the empty ones too
Store_always ==
    /\ pc = "done"
    /\ callsign # NoLocal
    /\ pc' = "stored"
    /\ periods_table' =
           [x \in DOMAIN periods_table \cup {callsign} |->
               IF x = callsign THEN periods ELSE periods_table[x]]
    /\ UNCHANGED <<config, i, periods, county_pair, tracer, callsign, waiting>>

\* if periods: periods_table[callsign] = periods
Store ==
    /\ pc = "done"
    /\ callsign # NoLocal
    /\ pc' = "stored"
    /\ periods_table' =
           IF periods # <<>>
           THEN [x \in DOMAIN periods_table \cup {callsign} |->
                    IF x = callsign THEN periods ELSE periods_table[x]]
           ELSE periods_table
    /\ UNCHANGED <<config, i, periods, county_pair, tracer, callsign, waiting>>

\* for callsign in mobile_stations: the next station's log is loaded and
\* its detection called.
NextStation(s) ==
    /\ pc = "stored"
    /\ s \in DOMAIN waiting
    /\ waiting[s].pc = "start"
    /\ TakeOver(s)

\* One detection per station run concurrently: the detection of another
\* unfinished station goes on in place of the current one.
Interleave(s) ==
    /\ s \in DOMAIN waiting
    /\ waiting[s].pc # "stored"
    /\ ~(pc = "stored" /\ waiting[s].pc = "start")
    /\ TakeOver(s)

Stations == {"W2A", "K2B"}

NextBatch ==
    \/ Next
    \/ Store
    \/ \E s \in Stations : NextStation(s)
    \/ \E s \in Stations : Interleave(s)

\* ------------------------------------------------------------ inputs
CountySeqs == UNION {[1..n -> Counties] : n \in 0..MaxLen}

InitRun ==
    /\ pc = "start"
    /\ i = 0
    /\ periods = <<>>
    /\ county_pair = None
    /\ ti = NoIndex
    /\ expected = NoLocal
    /\ alternations = NoIndex
    /\ consecutive_same = NoIndex
    /\ last_valid_idx = NoIndex

\* find_county_line_periods called on its own, outside any batch.
NoBatch ==
    /\ callsign = NoLocal
    /\ waiting = <<>>
    /\ periods_table = <<>>

Init ==
    /\ qsos \in {LoadedQsos(cs) : cs \in CountySeqs}
    /\ min_alternations \in 1..MaxMinAlternations
    /\ max_consecutive_same \in 0..MaxConsecutiveSameBound
    /\ InitRun
    /\ NoBatch

Spec == Init /\ [][Next]_vars

\* The documented scenario inputs, under every configuration of the bounds.
Scenario1 == <<"A", "B", "A", "B", "A">>
Scenario2 == <<"A", "B", "A", "C", "A", "B", "A">>
Scenario3 == <<"A", "B", "A", "A", "B", "A", "B">>
Scenario4 == <<"A", "A", "A", "A">>
Scenario5 == <<"A", "B", "A", "B", "C", "C", "C", "D", "E", "D", "E", "D">>
BoundaryScenario == <<"A", "B", "A", "B">>

Scenarios == {Scenario1, Scenario2, Scenario3, Scenario4, Scenario5,
              BoundaryScenario}

InitScen ==
    /\ qsos \in {LoadedQsos(cs) : cs \in Scenarios}
    /\ min_alternations \in 1..MaxMinAlternations
    /\ max_consecutive_same \in 0..MaxConsecutiveSameBound
    /\ InitRun
    /\ NoBatch

SpecScen == InitScen /\ [][Next]_vars

DefaultConfig ==
    /\ min_alternations = DefaultMinAlternations
    /\ max_consecutive_same = DefaultMaxConsecutiveSame

Returned == pc = "done"

\* The logs of a batch of stations.
BatchLogs ==
    {Scenario1, Scenario3, Scenario4, BoundaryScenario,
     <<"A", "B", "A", "A", "C", "A">>, <<"A", "B">>}

InitBatch ==
    /\ min_alternations \in 1..MaxMinAlternations
    /\ max_consecutive_same \in 0..MaxConsecutiveSameBound
    /\ callsign \in Stations
    /\ qsos \in {LoadedQsos(cs) : cs \in BatchLogs}
    /\ waiting \in [Stations \ {callsign} ->
                       {NotStarted(LoadedQsos(cs)) : cs \in BatchLogs}]
    /\ periods_table = <<>>
    /\ InitRun

SpecBatch == InitBatch /\ [][NextBatch]_vars

\* Logs longer than the lookahead window: a run of C records, then a tail.
Pad(n) == [k \in 1..n |-> "C"]

LongLogs ==
    {Pad(n) \o tail : n \in (LongPad - 1)..LongPad,
                      tail \in UNION {[1..m -> Counties] : m \in 0..LongTail}}

InitLong ==
    /\ qsos \in {LoadedQsos(cs) : cs \in LongLogs}
    /\ min_alternations \in 1..MaxMinAlternations
    /\ max_consecutive_same \in 0..MaxConsecutiveSameBound
    /\ InitRun
    /\ NoBatch

SpecLong == InitLong /\ [][Next]_vars

\* Logs whose timestamps need not ascend with the list index.
Logged(cs, ts) == [k \in 1..Len(cs) |-> QSORecord(ts[k], cs[k], k)]
Ascending(n) == [k \in 1..n |-> k]
Descending(n) == [k \in 1..n |-> n + 1 - k]

Ordered(list) ==
    \A k \in 1..(Len(list) - 1) : list[k].timestamp <= list[k + 1].timestamp

InitAnyOrder ==
    /\ qsos \in UNION {{Logged(cs, Ascending(Len(cs))),
                         Logged(cs, Descending(Len(cs)))} : cs \in Scenarios}
    /\ min_alternations \in 1..MaxMinAlternations
    /\ max_consecutive_same \in 0..MaxConsecutiveSameBound
    /\ InitRun
    /\ NoBatch

SpecAnyOrder == InitAnyOrder /\ [][Next]_vars

\* The window _detect_period_from hands to the pair finder at a cursor.
PairAt(cursor) ==
    FindAlternatingPair(Slice(qsos, cursor,
                              Min(cursor + LookaheadWindow, Len(qsos))))

\* ------------------------------------- the result as a function of the input
\* _trace_pattern's loop from record k on, under tolerance tol, as the value
\* it returns: (last_valid_idx, alternations).
RECURSIVE TraceLoop(_, _, _, _, _, _, _)
TraceLoop(k, pair, tol, exp, alts, same, last) ==
    IF k >= Len(qsos) THEN <<last, alts>>
    ELSE IF County(k) # pair[1] /\ County(k) # pair[2] THEN <<last, alts>>
    ELSE IF County(k) = exp
         THEN TraceLoop(k + 1, pair, tol,
                        IF exp = pair[1] THEN pair[2] ELSE pair[1],
                        alts + 1, 0, k)
    ELSE IF same + 1 > tol THEN <<k - (same + 1), alts>>
    ELSE TraceLoop(k + 1, pair, tol, exp, alts, same + 1, k)

\* _trace_pattern(qsos, start_idx, county_a, county_b) under tolerance tol
TracePattern(start_idx, pair, tol) ==
    IF County(start_idx) # pair[1] /\ County(start_idx) # pair[2]
    THEN <<start_idx, 0>>
    ELSE TraceLoop(start_idx, pair, tol, County(start_idx), 0, 0, start_idx)

\* The periods the driving loop appends from a cursor on, under tolerance tol.
RECURSIVE PeriodsFrom(_, _)
PeriodsFrom(cursor, tol) ==
    IF ~LoopCond(cursor) THEN <<>>
    ELSE IF cursor + min_alternations >= Len(qsos) \/ PairAt(cursor) = None
         THEN PeriodsFrom(cursor + 1, tol)
    ELSE LET pair == PairAt(cursor)
             r == TracePattern(cursor, pair, tol)
         IN  IF MeetsMinimum(r[2])
             THEN <<CountyLinePeriod(cursor, r[1], pair[1], pair[2], r[2])>>
                      \o PeriodsFrom(NextCursor(r[1]), tol)
             ELSE PeriodsFrom(cursor + 1, tol)

\* find_county_line_periods(qsos) of a detector with tolerance tol
FindCountyLinePeriods(tol) ==
    IF Len(qsos) < min_alternations + 1 THEN <<>> ELSE PeriodsFrom(0, tol)

\* ------------------------------------------------------------ properties

\* C1: the periods found are sorted by start_idx and pairwise
\* non-overlapping: each period ends before the next one starts.
PeriodsSortedDisjoint ==
    \A k \in 1..(Len(periods) - 1) :
        /\ periods[k].start_idx < periods[k + 1].start_idx
        /\ periods[k].end_idx < periods[k + 1].start_idx

TwoPeriodsReturned == Returned /\ Len(periods) >= 2

\* C2: every emitted period has alternations >= min_alternations, and a
\* trace that returns fewer alternations than the minimum adds no period.
AlternationsAtLeastMinimum ==
    [][/\ \A k \in 1..Len(periods') :
              periods'[k].alternations >= min_alternations
       /\ (pc = "traced" /\ alternations < min_alternations)
              => periods' = periods]_vars

ShortTraceAfterPeriod ==
    /\ pc = "traced"
    /\ alternations > 0
    /\ alternations < min_alternations
    /\ Len(periods) >= 1

\* C3: the counties of every emitted period are two distinct codes in
\* ascending order, in whichever order the pair finder returned them.
CountiesCanonicalPair ==
    \A k \in 1..Len(periods) :
        LET c == periods[k].counties
        IN  /\ Len(c) = 2
            /\ c[1] # c[2]
            /\ Rank(c[1]) < Rank(c[2])

PeriodFromDescendingPair ==
    /\ Returned
    /\ \E k \in 1..Len(periods) :
           PairAt(periods[k].start_idx)
             = <<periods[k].counties[2], periods[k].counties[1]>>

\* C4: every emitted period has qso_count >= alternations + 1.
QsoCountExceedsAlternations ==
    \A k \in 1..Len(periods) :
        periods[k].qso_count >= periods[k].alternations + 1

\* C5: [A,B,A,B,A] under the default configuration gives exactly one
\* period, counties [A,B], qso_count 5, alternations 4.
Scenario1Result ==
    (Returned /\ TxCounties(qsos) = Scenario1 /\ DefaultConfig)
        => /\ Len(periods) = 1
           /\ periods[1].counties = <<"A", "B">>
           /\ periods[1].qso_count = 5
           /\ periods[1].alternations = 4

\* A two-county sequence that changes county at every record.
CleanAlternation(cs) ==
    /\ Len(cs) >= 2
    /\ cs[1] # cs[2]
    /\ \A k \in 3..Len(cs) : cs[k] = cs[k - 2]

OnePeriodCoveringAll ==
    /\ Len(periods) = 1
    /\ periods[1].start_idx = 0
    /\ periods[1].end_idx = Len(qsos) - 1

\* C6, as stated: a clean two-county alternation of min_alternations + 1
\* records gives exactly one period, from index 0 to the last index.
BoundaryAnyMinimum ==
    (Returned /\ CleanAlternation(TxCounties(qsos))
              /\ Len(qsos) = min_alternations + 1)
        => OnePeriodCoveringAll

\* C6, amended: the same, for min_alternations >= 2.
BoundaryFromTwo ==
    (Returned /\ CleanAlternation(TxCounties(qsos))
              /\ Len(qsos) = min_alternations + 1
              /\ min_alternations >= 2)
        => OnePeriodCoveringAll

BoundaryScenarioReturned ==
    /\ Returned
    /\ TxCounties(qsos) = BoundaryScenario
    /\ min_alternations = 3
    /\ Len(periods) = 1

\* C7: [A,B,A,C,A,B,A] with min_alternations 3, max_consecutive_same 2: the
\* trace from index 0 ends at index 2 with 2 alternations, and the result
\* is the empty list.
Scenario2Result ==
    (TxCounties(qsos) = Scenario2 /\ DefaultConfig)
        => /\ (pc = "traced" /\ i = 0)
                => (last_valid_idx = 2 /\ alternations = 2)
           /\ Returned => periods = <<>>

Spans(p, first, last, c) ==
    /\ p.start_idx = first
    /\ p.end_idx = last
    /\ p.counties = c

\* C9, as stated: [A,B,A,B,C,C,C,D,E,D,E,D] with min_alternations 3 gives
\* exactly one period, the D,E run over indices 7..11.
Scenario5Result ==
    (Returned /\ TxCounties(qsos) = Scenario5 /\ DefaultConfig)
        => /\ Len(periods) = 1
           /\ Spans(periods[1], 7, 11, <<"D", "E">>)

\* C9, amended: the result holds exactly two periods, the A,B run over
\* indices 0..3 and the D,E run over indices 7..11.
Scenario5TwoPeriods ==
    (Returned /\ TxCounties(qsos) = Scenario5 /\ min_alternations = 3)
        => /\ Len(periods) = 2
           /\ Spans(periods[1], 0, 3, <<"A", "B">>)
           /\ Spans(periods[2], 7, 11, <<"D", "E">>)

Scenario5Returned ==
    /\ Returned
    /\ TxCounties(qsos) = Scenario5
    /\ min_alternations = 3
    /\ Len(periods) = 2

\* Three consecutive records X, Y, X with X # Y.
HasTriple(cs) ==
    \E k \in 1..(Len(cs) - 2) : cs[k] # cs[k + 1] /\ cs[k + 2] = cs[k]

\* C10: a sequence without three consecutive records X, Y, X (X # Y) never
\* gets a period, under any configuration with min_alternations >= 1.
NoTripleNoPeriod ==
    (~HasTriple(TxCounties(qsos)) /\ min_alternations >= 1)
        => periods = <<>>

NoTripleScanned ==
    /\ Returned
    /\ ~HasTriple(TxCounties(qsos))
    /\ Len(qsos) >= 4
    /\ \E k \in 1..(Len(qsos) - 1) : qsos[k].tx_county # qsos[k + 1].tx_county
    /\ i > 0
    /\ periods = <<>>

\* The tolerances above the configured one.
HigherTolerances ==
    (max_consecutive_same + 1)..(MaxConsecutiveSameBound + 1)

Within(p, q) == q.start_idx <= p.start_idx /\ p.end_idx <= q.end_idx

\* C11, as stated: with the tolerance raised, every period of the result
\* lies within the index range of some period of the new result.
ToleranceMonotonePeriods ==
    Returned =>
        \A t2 \in HigherTolerances :
            \A k \in 1..Len(periods) :
                \E m \in 1..Len(FindCountyLinePeriods(t2)) :
                    Within(periods[k], FindCountyLinePeriods(t2)[m])

\* C11, amended: with the tolerance raised, a trace from the same start
\* index with the same pair ends no earlier and counts no fewer
\* alternations, and the first period of the new result starts no later
\* than the first period of the old one.
ToleranceMonotoneTrace ==
    /\ pc = "traced" =>
           \A t2 \in HigherTolerances :
               /\ TracePattern(i, county_pair, t2)[1] >= last_valid_idx
               /\ TracePattern(i, county_pair, t2)[2] >= alternations
    /\ (Returned /\ periods # <<>>) =>
           \A t2 \in HigherTolerances :
               /\ FindCountyLinePeriods(t2) # <<>>
               /\ FindCountyLinePeriods(t2)[1].start_idx
                      <= periods[1].start_idx

TraceExtendedByTolerance ==
    /\ pc = "traced"
    /\ alternations >= min_alternations
    /\ max_consecutive_same < MaxConsecutiveSameBound
    /\ TracePattern(i, county_pair, max_consecutive_same + 1)[1]
           > last_valid_idx

\* C12: a log whose timestamps are not non-decreasing never gets a period
\* list returned.
DisorderNeverReturns == ~Ordered(qsos) => ~Returned

\* C13: a log of fewer than min_alternations + 1 records gets the empty
\* list straight from the entry test: neither the loop, the pair finder
\* nor the tracer is entered.
ShortLogReturnsEmpty ==
    Len(qsos) < min_alternations + 1 =>
        /\ pc \in {"start", "done"}
        /\ periods = <<>>
        /\ county_pair = None
        /\ alternations = NoIndex

LongestShortLogReturned ==
    /\ Returned
    /\ Len(qsos) = min_alternations
    /\ periods = <<>>

\* The cursor's window, and the offsets in it that start an X, Y, X triple.
WindowEnd(cursor) == Min(cursor + LookaheadWindow, Len(qsos))

TriplesIn(lo, hi) ==
    {j \in lo..(hi - 3) :
        County(j) # County(j + 1) /\ County(j + 2) = County(j)}

\* C14: at cursor i the pair finder's answer is decided by the records
\* i .. min(i + 10, length) - 1 alone: the pair (A, B) of the first offset
\* with A, B, A in that window, and no pair when the window has none.
PairFinderFirstTriple ==
    [][pc = "detect" =>
          LET js == TriplesIn(i, WindowEnd(i))
          IN  IF js = {}
              THEN pc' = "loop" /\ county_pair' = None
              ELSE \E j \in js :
                      /\ \A k \in js : j <= k
                      /\ county_pair' = <<County(j), County(j + 1)>>
                      /\ pc' = "trace_entry"]_vars

TripleBeyondWindow ==
    /\ pc = "loop"
    /\ i = 1
    /\ periods = <<>>
    /\ WindowEnd(0) < Len(qsos)
    /\ TriplesIn(0, WindowEnd(0)) = {}
    /\ TriplesIn(0, Len(qsos)) # {}

\* Liveness needs the run to keep stepping: the interpreter executes the
\* next statement of a call that has not returned.
FairSpec == Spec /\ WF_vars(Next)

\* C15: two runs on the same log with the same configuration, both
\* finished, have identical period lists.
SameLogSamePeriods ==
    \A s \in DOMAIN waiting :
        (/\ pc \in {"done", "stored"}
         /\ waiting[s].pc \in {"done", "stored"}
         /\ waiting[s].qsos = qsos)
            => waiting[s].periods = periods

SameLogRunTwice ==
    /\ pc = "stored"
    /\ periods # <<>>
    /\ \E s \in DOMAIN waiting :
           /\ waiting[s].pc = "stored"
           /\ waiting[s].qsos = qsos
           /\ waiting[s].periods = periods

\* A record of a third county at index k with pair members on both sides,
\* the alternation carrying on across it.
LoneOffPairAt(k) ==
    /\ k > i
    /\ k + 1 < Len(qsos)
    /\ ~InPair(County(k))
    /\ InPair(County(k - 1))
    /\ InPair(County(k + 1))
    /\ County(k + 1) # County(k - 1)

\* The trace has stopped at the record it was reading.
StoppedAtRecord ==
    /\ pc = "traced"
    /\ InPair(County(i))
    /\ ti < Len(qsos)

\* C16, as stated: a single third-county record inside an alternating run
\* does not end the trace, which extends past that record.
LoneOffPairTolerated ==
    (StoppedAtRecord /\ LoneOffPairAt(ti)) => last_valid_idx > ti

\* C16, amended: a third-county record ends the trace at once, at the
\* record before it, so no traced span holds an off-pair record; only
\* repeats of the pair's own counties are tolerated.
OffPairEndsTrace ==
    /\ (StoppedAtRecord /\ ~InPair(County(ti))) => last_valid_idx = ti - 1
    /\ (pc \in {"trace", "traced"} /\ InPair(County(i))) =>
           \A k \in i..last_valid_idx : InPair(County(k))

LoneOffPairEndedTrace ==
    /\ StoppedAtRecord
    /\ LoneOffPairAt(ti)
    /\ alternations >= min_alternations
    /\ last_valid_idx = ti - 1

\* The log of a station, wherever its run stands.
LogOf(s) == IF s = callsign THEN qsos ELSE waiting[s].qsos

TableEntryIs(s, ps) ==
    IF ps = <<>>
    THEN s \notin DOMAIN periods_table
    ELSE s \in DOMAIN periods_table /\ periods_table[s] = ps

\* C17: no step of a batch changes a station's log or the detector's
\* configuration; whatever the order and interleaving of the stations'
\* runs, a finished run holds the periods of its own log alone, and that
\* list is what the table holds for the station.
StationsIndependent ==
    /\ [](pc \in {"done", "stored"} =>
              periods = FindCountyLinePeriods(max_consecutive_same))
    /\ [](pc = "stored" => TableEntryIs(callsign, periods))
    /\ [](\A s \in DOMAIN waiting :
              waiting[s].pc = "stored" => TableEntryIs(s, waiting[s].periods))
    /\ [][/\ min_alternations' = min_alternations
           /\ max_consecutive_same' = max_consecutive_same
           /\ \A s \in Stations : LogOf(s)' = LogOf(s)]_vars

BothStationsStored ==
    /\ pc = "stored"
    /\ periods # <<>>
    /\ \E s \in DOMAIN waiting :
           /\ waiting[s].pc = "stored"
           /\ waiting[s].qsos # qsos
           /\ waiting[s].periods # <<>>
           /\ waiting[s].periods # periods

\* C18: a trace from a cursor the loop never examines (cursor >=
\* length - min_alternations) cannot reach min_alternations.
UnexaminedCannotQualify ==
    Returned =>
        \A c \in 0..(Len(qsos) - 1) :
            (c >= Len(qsos) - min_alternations /\ PairAt(c) # None) =>
                TracePattern(c, PairAt(c), max_consecutive_same)[2]
                    < min_alternations

\* C19: an emitted period starts at the cursor, ends at the tracer's
\* last_valid_idx, counts end_idx - start_idx + 1 records, and the cursor
\* moves to end_idx + 1; without a period the cursor moves to i + 1.
CursorAdvance ==
    [][/\ (pc = "traced" /\ alternations >= min_alternations) =>
            /\ Len(periods') = Len(periods) + 1
            /\ SubSeq(periods', 1, Len(periods)) = periods
            /\ periods'[Len(periods')].start_idx = i
            /\ periods'[Len(periods')].end_idx = last_valid_idx
            /\ periods'[Len(periods')].qso_count = last_valid_idx - i + 1
            /\ i' = last_valid_idx + 1
            /\ pc' = "loop"
       /\ (pc = "traced" /\ alternations < min_alternations) =>
            /\ periods' = periods
            /\ i' = i + 1
            /\ pc' = "loop"
       /\ (pc = "detect" /\ pc' # "trace_entry") =>
            /\ periods' = periods
            /\ i' = i + 1
            /\ pc' = "loop"]_vars

PeriodAfterRejectedCursor ==
    /\ Returned
    /\ Len(periods) = 2
    /\ periods[1].start_idx > 0
    /\ periods[2].start_idx > periods[1].end_idx + 1

\* C20: every value the tracer returns lies between the cursor and the
\* last index, every iteration moves the cursor forward, and the run
\* returns.
LoopTerminates ==
    /\ [](pc = "traced" =>
              i <= last_valid_idx /\ last_valid_idx <= Len(qsos) - 1)
    /\ [][(pc \in {"detect", "traced"} /\ pc' = "loop") => i' > i]_vars
    /\ <>Returned

RewoundPeriodTraced ==
    /\ StoppedAtRecord
    /\ consecutive_same > max_consecutive_same
    /\ last_valid_idx < ti - 1
    /\ alternations >= min_alternations

\* The tracer is reading a record of the pair that is not the expected one.
AtNoiseRecord ==
    /\ pc = "trace"
    /\ ti < Len(qsos)
    /\ InPair(County(ti))
    /\ County(ti) # expected

\* The tracer is reading the expected record.
AtMatchingRecord ==
    /\ pc = "trace"
    /\ ti < Len(qsos)
    /\ County(ti) = expected

\* C21: the repeat that takes consecutive_same above max_consecutive_same
\* ends the trace with last_valid_idx = ti - consecutive_same, the record
\* that last matched expected (the first record of the same-county run the
\* repeats belong to); all repeats lie after it, and alternations is what it
\* was before the repeats.
NoiseRewind ==
    [][(AtNoiseRecord /\ consecutive_same + 1 > max_consecutive_same) =>
          /\ pc' = "traced"
          /\ consecutive_same' = consecutive_same + 1
          /\ last_valid_idx' = ti - consecutive_same'
          /\ last_valid_idx' >= i
          /\ County(last_valid_idx') = Flip(expected)
          /\ \A k \in (last_valid_idx' + 1)..ti :
                 County(k) = County(last_valid_idx')
          /\ last_valid_idx' > i =>
                 County(last_valid_idx' - 1) # County(last_valid_idx')
          /\ alternations' = alternations]_vars

RewoundPastSeveralRepeats ==
    /\ StoppedAtRecord
    /\ consecutive_same > max_consecutive_same
    /\ max_consecutive_same >= 1
    /\ last_valid_idx > i
    /\ last_valid_idx = ti - consecutive_same

\* C22: an off-pair record at ti > i ends the trace at ti - 1 with nothing
\* cut back, the tolerated repeats just before it staying in the span; a
\* trace that runs out of records ends at the last record likewise.
CleanBreak ==
    [][/\ (pc = "trace" /\ ti < Len(qsos) /\ ~InPair(County(ti))) =>
            /\ ti > i
            /\ pc' = "traced"
            /\ last_valid_idx' = ti - 1
            /\ consecutive_same' = consecutive_same
            /\ consecutive_same <= max_consecutive_same
            /\ alternations' = alternations
       /\ (pc = "trace" /\ ti >= Len(qsos)) =>
            /\ pc' = "traced"
            /\ last_valid_idx' = Len(qsos) - 1
            /\ consecutive_same' = consecutive_same
            /\ consecutive_same <= max_consecutive_same
            /\ alternations' = alternations]_vars

RepeatsKeptBeforeOffPair ==
    /\ StoppedAtRecord
    /\ ~InPair(County(ti))
    /\ consecutive_same >= 1
    /\ last_valid_idx = ti - 1
    /\ County(last_valid_idx) = County(last_valid_idx - 1)
    /\ alternations >= min_alternations

MatchEffect ==
    AtMatchingRecord =>
        /\ consecutive_same' = 0
        /\ alternations' = alternations + 1
        /\ expected' = Flip(expected)
        /\ expected' # expected
        /\ InPair(expected')

\* C23, as stated: every repeat sets last_valid_idx to its own index.
RepeatAlwaysExtends ==
    [][/\ AtNoiseRecord =>
            /\ consecutive_same' = consecutive_same + 1
            /\ last_valid_idx' = ti
            /\ expected' = expected
            /\ alternations' = alternations
       /\ MatchEffect]_vars

\* C23, amended: a repeat of the previous county increments
\* consecutive_same and leaves expected and alternations alone; it sets
\* last_valid_idx to its own index unless the counter now exceeds
\* max_consecutive_same, when last_valid_idx is cut back instead. A record
\* equal to expected resets consecutive_same, adds one to alternations and
\* flips expected.
RepeatExtendsWithinTolerance ==
    [][/\ AtNoiseRecord =>
            /\ consecutive_same' = consecutive_same + 1
            /\ expected' = expected
            /\ alternations' = alternations
            /\ last_valid_idx' =
                   IF consecutive_same' > max_consecutive_same
                   THEN ti - consecutive_same'
                   ELSE ti
       /\ MatchEffect]_vars

MatchAfterRepeat ==
    /\ pc = "trace"
    /\ consecutive_same = 0
    /\ alternations >= 2
    /\ last_valid_idx = ti - 1
    /\ last_valid_idx - i + 1 > alternations

\* C24: when the record at the cursor is not of the pair found, the tracer
\* returns (i, 0) without reading a record, no period is emitted and the
\* cursor moves to i + 1.
MisSeededRetry ==
    [][/\ (pc = "trace_entry" /\ ~InPair(County(i))) =>
            /\ pc' = "traced"
            /\ last_valid_idx' = i
            /\ alternations' = 0
            /\ ti' = ti
       /\ (pc = "traced" /\ ~InPair(County(i))) =>
            /\ periods' = periods
            /\ i' = i + 1
            /\ pc' = "loop"]_vars

MisSeededTraced ==
    /\ pc = "traced"
    /\ ~InPair(County(i))
    /\ last_valid_idx = i
    /\ alternations = 0

\* The two counties of an emitted period, and its records' indices.
PairOf(p) == {p.counties[1], p.counties[2]}

Emitted == {periods[k] : k \in 1..Len(periods)}

\* C25: an emitted period cannot be extended: it ends at the last record,
\* or the next record is off its pair, or the next max_consecutive_same + 1
\* records all exist and all repeat the county of its last record.
PeriodsMaximal ==
    \A p \in Emitted :
        \/ p.end_idx = Len(qsos) - 1
        \/ /\ p.end_idx + 1 < Len(qsos)
           /\ County(p.end_idx + 1) \notin PairOf(p)
        \/ /\ p.end_idx + max_consecutive_same + 1 <= Len(qsos) - 1
           /\ \A k \in (p.end_idx + 1)..(p.end_idx + max_consecutive_same + 1) :
                  County(k) = County(p.end_idx)

PeriodEndedByRepeats ==
    /\ Returned
    /\ \E p \in Emitted :
           /\ p.end_idx + max_consecutive_same + 1 < Len(qsos) - 1
           /\ County(p.end_idx + 1) = County(p.end_idx)
           /\ p.qso_count > p.alternations

\* A strict X, Y, X triple of the period's counties at records j, j+1, j+2.
SeedAt(p, j) ==
    /\ County(j) # County(j + 1)
    /\ County(j + 2) = County(j)
    /\ {County(j), County(j + 1)} = PairOf(p)

PeriodRecordsInPair ==
    \A p \in Emitted :
        \A k \in p.start_idx..p.end_idx : County(k) \in PairOf(p)

PeriodCutAtOffPair ==
    /\ Returned
    /\ \E p \in Emitted :
           /\ p.end_idx + 1 < Len(qsos)
           /\ County(p.end_idx + 1) \notin PairOf(p)
           /\ p.qso_count > p.alternations
           /\ p.start_idx > 0

\* Records lo..hi all have the same county.
SameCountyRun(lo, hi) == \A k \in lo..hi : County(k) = County(lo)

\* C28: inside an emitted period no run of records of one county is longer
\* than max_consecutive_same + 1.
PeriodRunsBounded ==
    \A p \in Emitted :
        \A lo \in p.start_idx..p.end_idx :
            lo + max_consecutive_same + 1 <= p.end_idx =>
                ~SameCountyRun(lo, lo + max_consecutive_same + 1)

PeriodWithLongestRun ==
    /\ Returned
    /\ max_consecutive_same >= 1
    /\ \E p \in Emitted :
           \E lo \in (p.start_idx + 1)..(p.end_idx - max_consecutive_same - 1) :
               SameCountyRun(lo, lo + max_consecutive_same)

\* The positions after start_idx where the county changes.
RunStarts(p) ==
    {k \in (p.start_idx + 1)..p.end_idx : County(k) # County(k - 1)}

DetectorWindow == 10

\* CountyLinePeriod of the analyzer: county_a and county_b as found, the
\* timestamps as they are.
DetectorPeriod(start_idx, end_idx, a, b, alts) ==
    [start_time   |-> qsos[start_idx + 1].timestamp,
     end_time     |-> qsos[end_idx + 1].timestamp,
     county_a     |-> a,
     county_b     |-> b,
     start_idx    |-> start_idx,
     end_idx      |-> end_idx,
     qso_count    |-> end_idx - start_idx + 1,
     alternations |-> alts]

\* CountyLineDetector._find_alternating_pair: for i in range(len(qsos) - 2)
RECURSIVE DetectorScan(_, _)
DetectorScan(w, j) ==
    IF j >= Len(w) - 2 THEN None
    ELSE IF w[j + 1].tx_county = w[j + 2].tx_county
         THEN DetectorScan(w, j + 1)
    ELSE IF j + 2 < Len(w) /\ w[j + 3].tx_county = w[j + 1].tx_county
         THEN <<w[j + 1].tx_county, w[j + 2].tx_county>>
    ELSE DetectorScan(w, j + 1)

DetectorFindAlternatingPair(w) == DetectorScan(w, 0)

\* CountyLineDetector._trace_pattern: for i in range(start_idx, len(qsos))
RECURSIVE DetectorTraceLoop(_, _, _, _, _, _, _)
DetectorTraceLoop(k, a, b, exp, alts, same, last) ==
    IF k >= Len(qsos) THEN <<last, alts>>
    ELSE LET current == qsos[k + 1].tx_county
         IN  IF current \notin {a, b} THEN <<last, alts>>
             ELSE IF current = exp
                  THEN DetectorTraceLoop(k + 1, a, b,
                                         IF exp = a THEN b ELSE a,
                                         alts + 1, 0, k)
             ELSE IF same + 1 > max_consecutive_same
                  THEN <<k - (same + 1), alts>>
             ELSE DetectorTraceLoop(k + 1, a, b, exp, alts, same + 1, k)

\* the changes of county counted, the first record not
DetectorTracePattern_transitions(start_idx, a, b) ==
    IF qsos[start_idx + 1].tx_county \notin {a, b}
    THEN <<start_idx, 0>>
    ELSE DetectorTraceLoop(start_idx, a, b, qsos[start_idx + 1].tx_county,
                           -1, 0, start_idx)

DetectorTracePattern(start_idx, a, b) ==
    IF qsos[start_idx + 1].tx_county \notin {a, b}
    THEN <<start_idx, 0>>
    ELSE DetectorTraceLoop(start_idx, a, b, qsos[start_idx + 1].tx_county,
                           0, 0, start_idx)

\* CountyLineDetector._detect_period_from: a period, or None
DetectorDetectPeriodFrom(start_idx) ==
    IF start_idx + min_alternations >= Len(qsos) THEN None
    ELSE LET scan_window == Min(start_idx + DetectorWindow, Len(qsos))
             county_pair_ ==
                 DetectorFindAlternatingPair(
                     SubSeq(qsos, start_idx + 1, scan_window))
         IN  IF county_pair_ = None THEN None
             ELSE LET r == DetectorTracePattern(start_idx, county_pair_[1],
                                                county_pair_[2])
                  IN  IF r[2] >= min_alternations
                      THEN DetectorPeriod(start_idx, r[1], county_pair_[1],
                                          county_pair_[2], r[2])
                      ELSE None

\* CountyLineDetector.find_county_line_periods: the while loop from cursor on
RECURSIVE DetectorLoop(_)
DetectorLoop(cursor) ==
    IF ~(cursor < Len(qsos) - min_alternations) THEN <<>>
    ELSE LET period == DetectorDetectPeriodFrom(cursor)
         IN  IF period # None
             THEN <<period>> \o DetectorLoop(period.end_idx + 1)
             ELSE DetectorLoop(cursor + 1)

DetectorFindCountyLinePeriods ==
    IF Len(qsos) < min_alternations + 1 THEN <<>> ELSE DetectorLoop(0)

\* Short logs of every shape together with logs longer than the window.
InitBoth == Init \/ InitLong

SpecBoth == InitBoth /\ [][Next]_vars

\* C30: on the same records and configuration the two copies of the
\* detector return lists of the same length whose periods agree, one by
\* one, on start_idx, end_idx, qso_count, alternations and on the set of
\* the two counties.
DetectorsAgree ==
    Returned =>
        /\ Len(DetectorFindCountyLinePeriods) = Len(periods)
        /\ \A k \in 1..Len(periods) :
               LET d == DetectorFindCountyLinePeriods[k]
                   g == periods[k]
               IN  /\ d.start_idx = g.start_idx
                   /\ d.end_idx = g.end_idx
                   /\ d.qso_count = g.qso_count
                   /\ d.alternations = g.alternations
                   /\ {d.county_a, d.county_b} = PairOf(g)

BothReturnedDescendingPair ==
    /\ Returned
    /\ Len(periods) = 2
    /\ Len(DetectorFindCountyLinePeriods) = 2
    /\ \E k \in 1..2 :
           /\ DetectorFindCountyLinePeriods[k].county_a = periods[k].counties[2]
           /\ DetectorFindCountyLinePeriods[k].qso_count
                  > periods[k].alternations

====
